---- MODULE Spec2Model ----
(***************************************************************************)
(* Model of main.py: two transform worker pools (left, right) that fill    *)
(* the shared registries transformed_left / transformed_right under their  *)
(* locks, and the driver loop that snapshots both registries, submits the  *)
(* Cartesian product to a fresh combine pool, waits for the batch and      *)
(* unions it into all_video_combinations.                                  *)
(***************************************************************************)
EXTENDS Integers, Sequences, FiniteSets, TLC

(* ---------------- program constants (scaled) ---------------- *)
\* main.py:38  (30 in the source; scaled so that the pool cap is reached, and
\* odd so that the rounding of int(... / 2) shows)
MAX_CONCURRENT_DEC_PROCESSES == 5
\* main.py:39  (30 in the source; scaled so that a batch can exceed the cap)
MAX_CONCURRENT_ENC_PROCESSES == 2
\* main.py:40
MAX_ENC_TIME == 10800

(* ---------------- bounds of the model ---------------- *)
\* seconds the clock advances in one Tick, and the largest elapsed time modelled
TickSeconds == 10800
MaxElapsed == 21600
\* the per-pair dispatch counter saturates here
MaxDispatch == 2

\* most pairs len(left_videos) * len(right_videos) of an input
MaxPairs == 4

\* most pairs of an input in the runs checked for liveness
MaxFairPairs == 2

\* files the glob patterns of main.py:47-48 can match; an input is the first
\* k left names and the first m right names
LeftNames == <<"left_dir/video1.mp4", "left_dir/video1_video2.mp4", "left_dir/video2.mp4">>
RightNames == <<"right_dir/video3.mp4", "right_dir/video2_video3.mp4">>
LeftPool == {LeftNames[k] : k \in 1..Len(LeftNames)}
RightPool == {RightNames[m] : m \in 1..Len(RightNames)}

output_left_dir == "transformed_left_videos"
output_right_dir == "transformed_right_videos"
final_output_dir == "video_output"

VARIABLES
    left_videos,            \* main.py:47
    right_videos,           \* main.py:48
    tstate,                 \* position of each transform task in transform_video
    result,                 \* outcome of subprocess.run of each transform task
    starts,                 \* how often a worker has picked up each transform task
    inserts,                \* how often each transform task has added to a registry
    transformed_left,       \* main.py:50
    transformed_right,      \* main.py:51
    lock_transformed_left,  \* main.py:61, its holder
    lock_transformed_right, \* main.py:62, its holder
    pc,                     \* position of the main thread
    elapsed,                \* time.time() - start_enc_time
    left_snapshot,          \* left operand of product() once read
    prepared_combinations,  \* main.py:144
    jstate,                 \* position of each join_videos task of the batch
    all_video_combinations, \* main.py:52
    written,                \* files ffmpeg has written in final_output_dir
    dispatch_count,         \* how often join_videos was submitted, per pair
    join_failed,            \* some join_videos task has failed so far
    completed               \* pairs for which a join_videos task has completed

vars == <<left_videos, right_videos, tstate, result, starts, inserts, transformed_left, transformed_right,
          lock_transformed_left, lock_transformed_right, pc, elapsed,
          left_snapshot, prepared_combinations, jstate, all_video_combinations,
          written, dispatch_count, join_failed, completed>>

(* ---------------- pure helpers ---------------- *)
Max(S) == CHOOSE m \in S : \A n \in S : n <= m

\* os.path.basename: what follows the last "/"
basename(p) ==
    LET slashes == {i \in 1..Len(p) : SubSeq(p, i, i) = "/"}
    IN  IF slashes = {} THEN p ELSE SubSeq(p, Max(slashes) + 1, Len(p))

\* os.path.join of a directory and a relative name
path_join(dir, name) == dir \o "/" \o name

SideOf(input_file) == IF input_file \in left_videos THEN "left" ELSE "right"

\* transform_video, main.py:69-70
output_file_of(input_file, side) ==
    path_join(IF side = "left" THEN output_left_dir ELSE output_right_dir,
              basename(input_file))

\* join_videos, main.py:98
output_basename_full_left(input_file_left, input_file_right) ==
    basename(input_file_left) \o "_" \o basename(input_file_right)

output_basename(input_file_left, input_file_right) ==
    LET b == basename(input_file_left)
    IN  SubSeq(b, 1, Len(b) - 4) \o "_" \o basename(input_file_right)

\* join_videos, main.py:99
join_output_file(input_file_left, input_file_right) ==
    path_join(final_output_dir, output_basename(input_file_left, input_file_right))

\* main.py:136
total_outputs_number == Cardinality(left_videos) * Cardinality(right_videos)

\* main.py:127, 131: int(MAX_CONCURRENT_DEC_PROCESSES / 2)
max_workers_dec_rounded_up == (MAX_CONCURRENT_DEC_PROCESSES + 1) \div 2

max_workers_dec == MAX_CONCURRENT_DEC_PROCESSES \div 2

NoOwner == "free"
Driver == "driver"

Items == left_videos \cup right_videos
Videos(side) == IF side = "left" THEN left_videos ELSE right_videos
Executing(side) == {i \in Videos(side) : tstate[i] \in {"run", "lock", "add", "release"}}
Terminal == {"finished", "error", "exception"}

\* every (left artifact, right artifact) pair of the input items
FullPairs ==
    {<<output_file_of(l, "left"), output_file_of(r, "right")>> :
        l \in left_videos, r \in right_videos}
PoolPairs ==
    {<<output_file_of(l, "left"), output_file_of(r, "right")>> :
        l \in LeftPool, r \in RightPool}

(* ---------------- initial state ---------------- *)
\* The state at main.py:134: both pools are open and every transform task
\* has been submitted.
Init ==
    /\ \E k \in 0..Len(LeftNames), m \in 0..Len(RightNames) :
          /\ k * m <= MaxPairs
          /\ left_videos = {LeftNames[j] : j \in 1..k}
          /\ right_videos = {RightNames[j] : j \in 1..m}
    /\ tstate = [i \in left_videos \cup right_videos |-> "queued"]
    /\ result = [i \in left_videos \cup right_videos |-> "none"]
    /\ starts = [i \in left_videos \cup right_videos |-> 0]
    /\ inserts = [i \in left_videos \cup right_videos |-> 0]
    /\ transformed_left = {}
    /\ transformed_right = {}
    /\ lock_transformed_left = NoOwner
    /\ lock_transformed_right = NoOwner
    /\ pc = "start"
    /\ elapsed = 0
    /\ left_snapshot = {}
    /\ prepared_combinations = {}
    /\ jstate = <<>>
    /\ all_video_combinations = {}
    /\ written = {}
    /\ dispatch_count = [p \in PoolPairs |-> 0]
    /\ join_failed = FALSE
    /\ completed = {}

(* ---------------- transform_video, one task per input item ---------------- *)
Bump(n) == IF n < MaxDispatch THEN n + 1 ELSE n

\* A worker of the side's pool picks the task up (main.py:127-132): a pool
\* runs at most max_workers tasks at a time.
TransformStart_registers_first(i) ==
    /\ tstate[i] = "queued"
    /\ Cardinality(Executing(SideOf(i))) < max_workers_dec
    /\ tstate' = [tstate EXCEPT ![i] = "run"]
    /\ starts' = [starts EXCEPT ![i] = Bump(@)]
    /\ IF SideOf(i) = "left"
         THEN /\ transformed_left' = transformed_left \cup {output_file_of(i, "left")}
              /\ UNCHANGED transformed_right
         ELSE /\ transformed_right' = transformed_right \cup {output_file_of(i, "right")}
              /\ UNCHANGED transformed_left
    /\ UNCHANGED <<left_videos, right_videos, result, inserts,
                   lock_transformed_left, lock_transformed_right,
                   pc, elapsed, left_snapshot, prepared_combinations, jstate,
                   all_video_combinations, written, dispatch_count, join_failed, completed>>

TransformStart(i) ==
    /\ tstate[i] = "queued"
    /\ Cardinality(Executing(SideOf(i))) < max_workers_dec
    /\ tstate' = [tstate EXCEPT ![i] = "run"]
    /\ starts' = [starts EXCEPT ![i] = Bump(@)]
    /\ UNCHANGED <<left_videos, right_videos, result, inserts, transformed_left,
                   transformed_right, lock_transformed_left, lock_transformed_right,
                   pc, elapsed, left_snapshot, prepared_combinations, jstate,
                   all_video_combinations, written, dispatch_count, join_failed, completed>>

\* where transform_video goes after subprocess.run (main.py:82-94):
\* returncode 0 -> the with-lock block, non-zero -> the error print,
\* an exception -> the except branch
after_run_retry(outcome) ==
    CASE outcome = "ok" -> "lock"
      [] outcome = "nonzero" -> "queued"
      [] outcome = "raise" -> "exception"

after_run_insert_anyway(outcome) ==
    CASE outcome = "ok" -> "lock"
      [] outcome = "nonzero" -> "lock"
      [] outcome = "raise" -> "exception"

after_run(outcome) ==
    CASE outcome = "ok" -> "lock"
      [] outcome = "nonzero" -> "error"
      [] outcome = "raise" -> "exception"

\* subprocess.run returns or raises (main.py:82), then lines 83-87
TransformRun(i) ==
    /\ tstate[i] = "run"
    /\ \E outcome \in {"ok", "nonzero", "raise"} :
          /\ result' = [result EXCEPT ![i] = outcome]
          /\ tstate' = [tstate EXCEPT ![i] = after_run(outcome)]
    /\ UNCHANGED <<left_videos, right_videos, starts, inserts, transformed_left,
                   transformed_right, lock_transformed_left, lock_transformed_right,
                   pc, elapsed, left_snapshot, prepared_combinations, jstate,
                   all_video_combinations, written, dispatch_count, join_failed, completed>>

\* with lock: (main.py:88), the lock passed at main.py:128 / 132
TransformAcquire_left_lock_for_both(i) ==
    /\ tstate[i] = "lock"
    /\ lock_transformed_left = NoOwner
    /\ lock_transformed_left' = i
    /\ tstate' = [tstate EXCEPT ![i] = "add"]
    /\ UNCHANGED <<left_videos, right_videos, result, starts, inserts, transformed_left,
                   transformed_right, lock_transformed_right, pc, elapsed, left_snapshot,
                   prepared_combinations, jstate, all_video_combinations, written,
                   dispatch_count, join_failed, completed>>

TransformAcquire(i) ==
    /\ tstate[i] = "lock"
    /\ IF SideOf(i) = "left"
         THEN /\ lock_transformed_left = NoOwner
              /\ lock_transformed_left' = i
              /\ UNCHANGED lock_transformed_right
         ELSE /\ lock_transformed_right = NoOwner
              /\ lock_transformed_right' = i
              /\ UNCHANGED lock_transformed_left
    /\ tstate' = [tstate EXCEPT ![i] = "add"]
    /\ UNCHANGED <<left_videos, right_videos, result, starts, inserts, transformed_left,
                   transformed_right, pc, elapsed, left_snapshot, prepared_combinations,
                   jstate, all_video_combinations, written, dispatch_count, join_failed, completed>>

\* transformed_left.add / transformed_right.add (main.py:89-92)
TransformAdd(i) ==
    /\ tstate[i] = "add"
    /\ IF SideOf(i) = "left"
         THEN /\ transformed_left' = transformed_left \cup {output_file_of(i, "left")}
              /\ UNCHANGED transformed_right
         ELSE /\ transformed_right' = transformed_right \cup {output_file_of(i, "right")}
              /\ UNCHANGED transformed_left
    /\ inserts' = [inserts EXCEPT ![i] = Bump(@)]
    /\ tstate' = [tstate EXCEPT ![i] = "release"]
    /\ UNCHANGED <<left_videos, right_videos, result, starts, lock_transformed_left,
                   lock_transformed_right, pc, elapsed, left_snapshot,
                   prepared_combinations, jstate, all_video_combinations, written,
                   dispatch_count, join_failed, completed>>

\* leaving the with-lock block (main.py:88-92)
TransformRelease(i) ==
    /\ tstate[i] = "release"
    /\ IF SideOf(i) = "left"
         THEN /\ lock_transformed_left' = NoOwner
              /\ UNCHANGED lock_transformed_right
         ELSE /\ lock_transformed_right' = NoOwner
              /\ UNCHANGED lock_transformed_left
    /\ tstate' = [tstate EXCEPT ![i] = "finished"]
    /\ UNCHANGED <<left_videos, right_videos, result, starts, inserts, transformed_left,
                   transformed_right, pc, elapsed, left_snapshot, prepared_combinations,
                   jstate, all_video_combinations, written, dispatch_count, join_failed, completed>>

(* ---------------- join_videos, one task per pair of the batch ---------------- *)
Joining == {p \in DOMAIN jstate : jstate[p] = "run"}
JoinDone == {"ok", "error", "exception"}

\* main.py:146: the pool runs at most max_workers tasks at a time
pool_has_idle_worker_off_by_one(running) == running <= MAX_CONCURRENT_ENC_PROCESSES

pool_has_idle_worker(running) == running < MAX_CONCURRENT_ENC_PROCESSES

JoinStart(p) ==
    /\ p \in DOMAIN jstate
    /\ jstate[p] = "queued"
    /\ pool_has_idle_worker(Cardinality(Joining))
    /\ jstate' = [jstate EXCEPT ![p] = "run"]
    /\ UNCHANGED <<left_videos, right_videos, tstate, result, starts, inserts,
                   transformed_left, transformed_right, lock_transformed_left,
                   lock_transformed_right, pc, elapsed, left_snapshot,
                   prepared_combinations, all_video_combinations, written,
                   dispatch_count, join_failed, completed>>

\* subprocess.run returns or raises (main.py:110-117); ffmpeg leaves the
\* output file when it exits with status 0
JoinRun(p) ==
    /\ p \in DOMAIN jstate
    /\ jstate[p] = "run"
    /\ \/ /\ jstate' = [jstate EXCEPT ![p] = "ok"]
          /\ written' = written \cup {join_output_file(p[1], p[2])}
          /\ UNCHANGED join_failed
       \/ /\ \E outcome \in {"error", "exception"} :
                jstate' = [jstate EXCEPT ![p] = outcome]
          /\ join_failed' = TRUE
          /\ UNCHANGED written
    /\ completed' = completed \cup {p}
    /\ UNCHANGED <<left_videos, right_videos, tstate, result, starts, inserts,
                   transformed_left, transformed_right, lock_transformed_left,
                   lock_transformed_right, pc, elapsed, left_snapshot,
                   prepared_combinations, all_video_combinations, dispatch_count>>

(* ---------------- the main thread, main.py:134-150 ---------------- *)
DriverUnchanged ==
    UNCHANGED <<left_videos, right_videos, tstate, result, starts, inserts,
                transformed_left, transformed_right, written, join_failed, completed>>

\* main.py:134, 136
DriverStart_after_transforms ==
    /\ pc = "start"
    /\ \A i \in Items : tstate[i] \in Terminal
    /\ pc' = "while"
    /\ elapsed' = 0
    /\ DriverUnchanged
    /\ UNCHANGED <<lock_transformed_left, lock_transformed_right, left_snapshot,
                   prepared_combinations, jstate, all_video_combinations, dispatch_count>>

DriverStart ==
    /\ pc = "start"
    /\ pc' = "while"
    /\ elapsed' = 0
    /\ DriverUnchanged
    /\ UNCHANGED <<lock_transformed_left, lock_transformed_right, left_snapshot,
                   prepared_combinations, jstate, all_video_combinations, dispatch_count>>

\* the condition of the while loop, main.py:137
while_condition_early_exit ==
    Cardinality(all_video_combinations) < total_outputs_number - 1
        \/ elapsed > MAX_ENC_TIME

while_condition ==
    Cardinality(all_video_combinations) < total_outputs_number
        \/ elapsed > MAX_ENC_TIME

LoopCheck ==
    /\ pc = "while"
    /\ pc' = IF while_condition THEN "lock_left" ELSE "join_right"
    /\ DriverUnchanged
    /\ UNCHANGED <<lock_transformed_left, lock_transformed_right, elapsed, left_snapshot,
                   prepared_combinations, jstate, all_video_combinations, dispatch_count>>

\* with lock_transformed_left: (main.py:142)
AcquireLeft ==
    /\ pc = "lock_left"
    /\ lock_transformed_left = NoOwner
    /\ lock_transformed_left' = Driver
    /\ pc' = "lock_right"
    /\ DriverUnchanged
    /\ UNCHANGED <<lock_transformed_right, elapsed, left_snapshot,
                   prepared_combinations, jstate, all_video_combinations, dispatch_count>>

\* with lock_transformed_right: (main.py:143)
AcquireRight ==
    /\ pc = "lock_right"
    /\ lock_transformed_right = NoOwner
    /\ lock_transformed_right' = Driver
    /\ pc' = "read_left"
    /\ DriverUnchanged
    /\ UNCHANGED <<lock_transformed_left, elapsed, left_snapshot,
                   prepared_combinations, jstate, all_video_combinations, dispatch_count>>

\* product() reads its first argument (main.py:144)
ReadLeft ==
    /\ pc = "read_left"
    /\ left_snapshot' = transformed_left
    /\ pc' = "read_right"
    /\ DriverUnchanged
    /\ UNCHANGED <<lock_transformed_left, lock_transformed_right, elapsed,
                   prepared_combinations, jstate, all_video_combinations, dispatch_count>>

\* product() reads its second argument; set(product(...)) (main.py:144)
ReadRight ==
    /\ pc = "read_right"
    /\ prepared_combinations' = left_snapshot \X transformed_right
    /\ left_snapshot' = {}
    /\ pc' = "unlock_right"
    /\ DriverUnchanged
    /\ UNCHANGED <<lock_transformed_left, lock_transformed_right, elapsed,
                   jstate, all_video_combinations, dispatch_count>>

\* leaving the inner with block (main.py:143-145)
ReleaseRight ==
    /\ pc = "unlock_right"
    /\ lock_transformed_right' = NoOwner
    /\ pc' = "unlock_left"
    /\ DriverUnchanged
    /\ UNCHANGED <<lock_transformed_left, elapsed, left_snapshot,
                   prepared_combinations, jstate, all_video_combinations, dispatch_count>>

\* leaving the outer with block (main.py:142-145)
ReleaseLeft_keeps_lock ==
    /\ pc = "unlock_left"
    /\ pc' = "submit"
    /\ DriverUnchanged
    /\ UNCHANGED <<lock_transformed_left, lock_transformed_right, elapsed, left_snapshot,
                   prepared_combinations, jstate, all_video_combinations, dispatch_count>>

ReleaseLeft ==
    /\ pc = "unlock_left"
    /\ lock_transformed_left' = NoOwner
    /\ pc' = "submit"
    /\ DriverUnchanged
    /\ UNCHANGED <<lock_transformed_right, elapsed, left_snapshot,
                   prepared_combinations, jstate, all_video_combinations, dispatch_count>>

\* a fresh pool, one join_videos future per prepared pair (main.py:146-147)
Submit_delta_only ==
    /\ pc = "submit"
    /\ jstate' = [p \in prepared_combinations \ all_video_combinations |-> "queued"]
    /\ dispatch_count' = [p \in DOMAIN dispatch_count |->
                            IF p \in prepared_combinations \ all_video_combinations
                                THEN Bump(dispatch_count[p]) ELSE dispatch_count[p]]
    /\ pc' = "wait"
    /\ DriverUnchanged
    /\ UNCHANGED <<lock_transformed_left, lock_transformed_right, elapsed, left_snapshot,
                   prepared_combinations, all_video_combinations>>

Submit ==
    /\ pc = "submit"
    /\ jstate' = [p \in prepared_combinations |-> "queued"]
    /\ dispatch_count' = [p \in DOMAIN dispatch_count |->
                            IF p \in prepared_combinations
                                THEN Bump(dispatch_count[p]) ELSE dispatch_count[p]]
    /\ pc' = "wait"
    /\ DriverUnchanged
    /\ UNCHANGED <<lock_transformed_left, lock_transformed_right, elapsed, left_snapshot,
                   prepared_combinations, all_video_combinations>>

\* wait(futures, return_when=ALL_COMPLETED) (main.py:148)
wait_returns_first_completed(js) ==
    DOMAIN js = {} \/ \E p \in DOMAIN js : js[p] \in JoinDone

wait_returns(js) == \A p \in DOMAIN js : js[p] \in JoinDone

Wait ==
    /\ pc = "wait"
    /\ wait_returns(jstate)
    /\ pc' = "union"
    /\ DriverUnchanged
    /\ UNCHANGED <<lock_transformed_left, lock_transformed_right, elapsed, left_snapshot,
                   prepared_combinations, jstate, all_video_combinations, dispatch_count>>

\* all_video_combinations = all_video_combinations | prepared_combinations (main.py:149)
Union_only_succeeded ==
    /\ pc = "union"
    /\ all_video_combinations' = all_video_combinations
            \cup {p \in prepared_combinations : p \in DOMAIN jstate /\ jstate[p] = "ok"}
    /\ pc' = "clear"
    /\ DriverUnchanged
    /\ UNCHANGED <<lock_transformed_left, lock_transformed_right, elapsed, left_snapshot,
                   prepared_combinations, jstate, dispatch_count>>

Union ==
    /\ pc = "union"
    /\ all_video_combinations' = all_video_combinations \cup prepared_combinations
    /\ pc' = "clear"
    /\ DriverUnchanged
    /\ UNCHANGED <<lock_transformed_left, lock_transformed_right, elapsed, left_snapshot,
                   prepared_combinations, jstate, dispatch_count>>

\* prepared_combinations.clear() and the exit of the pool's with block, which
\* joins the pool's workers (main.py:146-150)
Clear ==
    /\ pc = "clear"
    /\ \A p \in DOMAIN jstate : jstate[p] \in JoinDone
    /\ prepared_combinations' = {}
    /\ jstate' = <<>>
    /\ pc' = "while"
    /\ DriverUnchanged
    /\ UNCHANGED <<lock_transformed_left, lock_transformed_right, elapsed, left_snapshot,
                   all_video_combinations, dispatch_count>>

\* exit of the right pool's with block: shutdown(wait=True) (main.py:131)
JoinRightPool ==
    /\ pc = "join_right"
    /\ \A i \in right_videos : tstate[i] \in Terminal
    /\ pc' = "join_left"
    /\ DriverUnchanged
    /\ UNCHANGED <<lock_transformed_left, lock_transformed_right, elapsed, left_snapshot,
                   prepared_combinations, jstate, all_video_combinations, dispatch_count>>

\* exit of the left pool's with block (main.py:127)
JoinLeftPool ==
    /\ pc = "join_left"
    /\ \A i \in left_videos : tstate[i] \in Terminal
    /\ pc' = "exit"
    /\ DriverUnchanged
    /\ UNCHANGED <<lock_transformed_left, lock_transformed_right, elapsed, left_snapshot,
                   prepared_combinations, jstate, all_video_combinations, dispatch_count>>

InLoop == pc \notin {"start", "join_right", "join_left", "exit"}

\* time passes while the loop runs; time.time() is read at main.py:137 only
Tick ==
    /\ InLoop
    /\ elapsed + TickSeconds <= MaxElapsed
    /\ elapsed' = elapsed + TickSeconds
    /\ UNCHANGED <<left_videos, right_videos, tstate, result, starts, inserts,
                   transformed_left, transformed_right, lock_transformed_left,
                   lock_transformed_right, pc, left_snapshot, prepared_combinations,
                   jstate, all_video_combinations, written, dispatch_count, join_failed, completed>>

(* ---------------- specifications ---------------- *)
TransformStep(i) ==
    \/ TransformStart(i)
    \/ TransformRun(i)
    \/ TransformAcquire(i)
    \/ TransformAdd(i)
    \/ TransformRelease(i)

JoinStep(p) == JoinStart(p) \/ JoinRun(p)

DriverStep ==
    \/ DriverStart
    \/ LoopCheck
    \/ AcquireLeft
    \/ AcquireRight
    \/ ReadLeft
    \/ ReadRight
    \/ ReleaseRight
    \/ ReleaseLeft
    \/ Submit
    \/ Wait
    \/ Union
    \/ Clear
    \/ JoinRightPool
    \/ JoinLeftPool

Next ==
    \/ \E i \in LeftPool \cup RightPool : i \in Items /\ TransformStep(i)
    \/ \E p \in PoolPairs : JoinStep(p)
    \/ DriverStep
    \/ Tick

Spec == Init /\ [][Next]_vars

\* Thread scheduling is fair: when some worker thread can take a step, one of
\* them eventually does, and a lock that is free again and again is eventually
\* acquired by a thread waiting for it.  (Each condition follows from weak,
\* resp. strong, fairness of the threads one by one: a step of a worker that
\* does not wait for a lock stays enabled until a worker takes a step.)
TransformWork == \E i \in LeftPool \cup RightPool :
                    i \in Items /\ tstate[i] # "lock" /\ TransformStep(i)
TransformLock == \E i \in LeftPool \cup RightPool : i \in Items /\ TransformAcquire(i)
JoinWork == \E p \in PoolPairs : JoinStep(p)

Fairness ==
    /\ WF_vars(TransformWork)
    /\ SF_vars(TransformLock)
    /\ WF_vars(JoinWork)
    /\ WF_vars(DriverStep /\ pc \notin {"lock_left", "lock_right"})
    /\ SF_vars(AcquireLeft)
    /\ SF_vars(AcquireRight)

\* the inputs of the liveness runs
FairInit == Init /\ total_outputs_number <= MaxFairPairs

FairSpec == FairInit /\ [][Next]_vars /\ Fairness

TypeOK ==
    /\ left_videos \subseteq LeftPool
    /\ right_videos \subseteq RightPool
    /\ tstate \in [Items -> {"queued", "run", "lock", "add", "release"} \cup Terminal]
    /\ result \in [Items -> {"none", "ok", "nonzero", "raise"}]
    /\ transformed_left \subseteq {output_file_of(i, "left") : i \in left_videos}
    /\ transformed_right \subseteq {output_file_of(i, "right") : i \in right_videos}
    /\ lock_transformed_left \in {NoOwner, Driver} \cup left_videos
    /\ lock_transformed_right \in {NoOwner, Driver} \cup right_videos
    /\ elapsed \in 0..MaxElapsed
    /\ prepared_combinations \subseteq FullPairs
    /\ all_video_combinations \subseteq FullPairs
    /\ DOMAIN jstate \subseteq prepared_combinations
    /\ join_failed \in BOOLEAN
    /\ completed \subseteq FullPairs

(* ---------------- properties ---------------- *)
AnyTransformFailed == \E i \in Items : result[i] \in {"nonzero", "raise"}
AllTransformsOk == \A i \in Items : result[i] = "ok"
ExpectedOutputs == {join_output_file(p[1], p[2]) : p \in FullPairs}

FailedItems == {i \in Items : result[i] \in {"nonzero", "raise"}}
AllTransformsFinished == \A i \in Items : tstate[i] \in Terminal
LoopExited == pc \in {"join_right", "join_left", "exit"}

\* C2 as claimed: when exactly one left transform has failed, every other
\* transform has succeeded, there is a right item and the remaining pairs have
\* all been dispatched and drained (no combine failing, within the time
\* budget), the loop condition lets the driver leave the loop.
C2Case ==
    /\ Cardinality(right_videos) >= 1
    /\ AllTransformsFinished
    /\ Cardinality(FailedItems) = 1
    /\ FailedItems \subseteq left_videos
    /\ ~join_failed
    /\ all_video_combinations # {}
    /\ all_video_combinations = transformed_left \X transformed_right
    /\ elapsed <= MAX_ENC_TIME

C2_AsClaimed == [][(pc = "while" /\ C2Case) => pc' # "lock_left"]_vars

\* C3 as claimed: once the elapsed time exceeds MAX_ENC_TIME, the next check of
\* the loop condition leaves the loop, whatever the number of produced pairs.
C3_AsClaimed == [][(pc = "while" /\ elapsed > MAX_ENC_TIME) => pc' # "lock_left"]_vars

\* C4 as claimed: once both registries hold every artifact and
\* all_video_combinations holds all L x R pairs, no join_videos task is
\* submitted any more, whatever the elapsed time.
Converged ==
    /\ transformed_left = {output_file_of(i, "left") : i \in left_videos}
    /\ transformed_right = {output_file_of(i, "right") : i \in right_videos}
    /\ all_video_combinations = FullPairs

C4_AsClaimed ==
    [][Converged => ~(pc = "submit" /\ pc' = "wait" /\ prepared_combinations # {})]_vars

\* C5 as claimed: with no failure (and within the time budget) every pair is
\* submitted at most once, and exactly once by the time the loop has ended.
C5_AsClaimed ==
    (~AnyTransformFailed /\ ~join_failed /\ elapsed <= MAX_ENC_TIME) =>
        /\ \A p \in FullPairs : dispatch_count[p] <= 1
        /\ LoopExited => \A p \in FullPairs : dispatch_count[p] = 1

\* C6: every pair that was ever prepared or submitted to the combine pool
\* consists of the artifacts of two items whose transform succeeded.
OkArtifacts(side) ==
    {output_file_of(i, side) : i \in {j \in Videos(side) : result[j] = "ok"}}

C6_NoPairOfFailedTransform ==
    \A p \in PoolPairs \cup prepared_combinations :
        (dispatch_count[p] > 0 \/ p \in DOMAIN jstate \/ p \in prepared_combinations)
            => (p[1] \in OkArtifacts("left") /\ p[2] \in OkArtifacts("right"))

C6_Witness ==
    /\ \E i \in left_videos : result[i] = "nonzero"
    /\ \E i \in right_videos : result[i] = "raise"
    /\ \E p \in FullPairs : dispatch_count[p] > 0

\* C7: at most MAX_CONCURRENT_ENC_PROCESSES join_videos tasks execute at any
\* time.
C7_AtMostMJoins == Cardinality(Joining) <= MAX_CONCURRENT_ENC_PROCESSES

C7_Witness ==
    /\ Cardinality(Joining) = MAX_CONCURRENT_ENC_PROCESSES
    /\ \E p \in DOMAIN jstate : jstate[p] = "queued"

\* C8: while a join_videos task of the batch has not completed the driver is
\* blocked in wait(): it has not added the batch to all_video_combinations and
\* is not taking a snapshot; and no task of a batch exists any more when the
\* driver prepares and submits the next one.
C8_BatchJoin ==
    /\ (\E p \in DOMAIN jstate : jstate[p] \notin JoinDone) => pc = "wait"
    /\ DOMAIN jstate # {} => pc \in {"wait", "union", "clear"}

C8_Witness ==
    /\ pc = "union"
    /\ \E p \in DOMAIN jstate : jstate[p] = "error"
    /\ \E p \in DOMAIN jstate : jstate[p] = "ok"
    /\ ~(prepared_combinations \subseteq all_video_combinations)

\* C9: every transform task ends and the driver keeps running whatever tasks
\* fail: a state is reached in which all transform tasks have ended, the driver
\* is at its loop condition or has left, and every task whose process exited
\* non-zero or raised has inserted nothing into either registry (the
\* registries and the insert counts only grow) and holds no lock.
C9_FailureIsLocal ==
    <>(/\ AllTransformsFinished
       /\ pc \in {"while", "exit"}
       /\ \A i \in FailedItems :
            /\ inserts[i] = 0
            /\ output_file_of(i, SideOf(i)) \notin transformed_left \cup transformed_right
            /\ tstate[i] \in {"error", "exception"}
            /\ lock_transformed_left # i
            /\ lock_transformed_right # i)

C9_Witness ==
    /\ \E i \in left_videos : result[i] = "nonzero"
    /\ \E i \in left_videos : tstate[i] = "finished"
    /\ \E i \in right_videos : tstate[i] = "finished"
    /\ all_video_combinations # {}
    /\ pc = "while"

\* C10: a registry holds no more artifacts than items of its side have
\* inserted, and every item is picked up and inserted at most once.
C10_SingleInsert ==
    /\ Cardinality(transformed_left)
            <= Cardinality({i \in left_videos : inserts[i] > 0})
    /\ Cardinality(transformed_right)
            <= Cardinality({i \in right_videos : inserts[i] > 0})
    /\ \A i \in Items : starts[i] <= 1 /\ inserts[i] <= 1

C10_Witness ==
    \E i, j \in left_videos :
        /\ i # j
        /\ tstate[i] = "add"
        /\ tstate[j] = "lock"
        /\ transformed_left = {}

\* C11: at most floor(MAX_CONCURRENT_DEC_PROCESSES / 2) transform tasks of one
\* side execute at a time, hence at most MAX_CONCURRENT_DEC_PROCESSES in all.
C11_AtMostNTransforms ==
    /\ 2 * Cardinality(Executing("left")) <= MAX_CONCURRENT_DEC_PROCESSES
    /\ 2 * Cardinality(Executing("right")) <= MAX_CONCURRENT_DEC_PROCESSES
    /\ Cardinality(Executing("left")) + Cardinality(Executing("right"))
            <= MAX_CONCURRENT_DEC_PROCESSES

C11_Witness ==
    /\ 2 * (Cardinality(Executing("left")) + 1) > MAX_CONCURRENT_DEC_PROCESSES
    /\ \E i \in left_videos : tstate[i] = "queued"
    /\ Executing("right") # {}

\* C12 as claimed: the output of a pair that has been combined is named by the
\* full base name of the left artifact, "_", and the full base name of the
\* right artifact.
C12_AsClaimed ==
    \A p \in DOMAIN jstate :
        jstate[p] = "ok" =>
            path_join(final_output_dir, basename(p[1]) \o "_" \o basename(p[2]))
                \in written

\* C12 amended: the output of a pair is named by the base name of the left
\* artifact without its last four characters (the ".mp4" of a file the glob
\* matches), "_", and the full base name of the right artifact: the file
\* written for the pair ends in "_" and the right base name, and what precedes
\* that, with ".mp4" appended, is the left base name.
NamedLeftStemThenRight(f, p) ==
    LET n == basename(f)
        cut == Len(n) - Len(basename(p[2]))
    IN  /\ f = path_join(final_output_dir, n)
        /\ cut >= 2
        /\ SubSeq(n, cut + 1, Len(n)) = basename(p[2])
        /\ SubSeq(n, cut, cut) = "_"
        /\ SubSeq(n, 1, cut - 1) \o ".mp4" = basename(p[1])

C12_LeftStemThenRight ==
    \A p \in DOMAIN jstate :
        jstate[p] = "ok" => \E f \in written : NamedLeftStemThenRight(f, p)

C12_Witness ==
    /\ \E p \in DOMAIN jstate : jstate[p] = "ok"
    /\ "video_output/video1_video2_video3.mp4" \in written
    /\ "video_output/video1_video3.mp4" \in written

\* C13: the locks cannot deadlock.  The driver holds the right lock only
\* while it holds the left one, a transform worker holds only the lock of its
\* own side and never waits while holding it, and whenever a thread waits for
\* a lock, the lock is free or its holder can take a step that does not wait
\* for a lock (or waits only for a lock whose holder can).
WorkerCanStep(i) == i \in Items /\ tstate[i] \in {"add", "release"}

DriverHoldsAndCanStep ==
    \/ pc \in {"read_left", "read_right", "unlock_right", "unlock_left"}
    \/ /\ pc = "lock_right"
       /\ lock_transformed_right = NoOwner \/ WorkerCanStep(lock_transformed_right)

HolderCanStep(holder) ==
    \/ holder = NoOwner
    \/ holder = Driver /\ DriverHoldsAndCanStep
    \/ holder \notin {NoOwner, Driver} /\ WorkerCanStep(holder)

WaitsForLeft ==
    pc = "lock_left" \/ \E i \in left_videos : tstate[i] = "lock"
WaitsForRight ==
    pc = "lock_right" \/ \E i \in right_videos : tstate[i] = "lock"

C13_NoLockDeadlock ==
    /\ lock_transformed_right = Driver => lock_transformed_left = Driver
    /\ lock_transformed_left = Driver <=>
            pc \in {"lock_right", "read_left", "read_right", "unlock_right", "unlock_left"}
    /\ \A i \in Items :
            /\ lock_transformed_left = i => (i \in left_videos /\ WorkerCanStep(i))
            /\ lock_transformed_right = i => (i \in right_videos /\ WorkerCanStep(i))
            /\ tstate[i] = "lock" =>
                    (lock_transformed_left # i /\ lock_transformed_right # i)
    /\ WaitsForLeft => HolderCanStep(lock_transformed_left)
    /\ WaitsForRight => HolderCanStep(lock_transformed_right)

C13_Witness ==
    /\ pc = "lock_right"
    /\ lock_transformed_left = Driver
    /\ lock_transformed_right \in right_videos
    /\ \E i \in left_videos : tstate[i] = "lock"
    /\ \E i \in right_videos : tstate[i] = "lock"

\* C14: a transform task adds to a registry only while it holds that side's
\* lock; the driver reads the registries only while it holds both locks; no
\* insert falls between its read of the left and its read of the right
\* registry, so the batch is the product of the two registries as they are at
\* one instant.
C14_LockedAccessAtomicSnapshot ==
    /\ \A i \in left_videos :
            tstate[i] \in {"add", "release"} => lock_transformed_left = i
    /\ \A i \in right_videos :
            tstate[i] \in {"add", "release"} => lock_transformed_right = i
    /\ pc \in {"read_left", "read_right", "unlock_right"} =>
            (lock_transformed_left = Driver /\ lock_transformed_right = Driver)
    /\ pc = "read_right" => left_snapshot = transformed_left
    /\ pc = "unlock_right" =>
            prepared_combinations = transformed_left \X transformed_right
    /\ pc = "wait" => DOMAIN jstate = prepared_combinations

C14_Witness ==
    /\ pc = "read_right"
    /\ left_snapshot # {}
    /\ transformed_right # {}
    /\ \E i \in left_videos : tstate[i] = "lock"
    /\ \E i \in right_videos : tstate[i] = "lock"

\* C15: a pair counts as produced whatever the outcome of its join_videos
\* task: every pair whose task has completed, with status 0, non-zero or an
\* exception, is in all_video_combinations once the driver has passed the
\* union of its batch.
C15_CountedWhateverOutcome ==
    \A p \in completed :
        \/ p \in all_video_combinations
        \/ p \in DOMAIN jstate /\ pc \in {"wait", "union"}

C15_Witness ==
    /\ pc = "exit"
    /\ total_outputs_number >= 2
    /\ Cardinality(all_video_combinations) = total_outputs_number
    /\ \E p \in FullPairs : join_output_file(p[1], p[2]) \notin written
    /\ \E p \in FullPairs : join_output_file(p[1], p[2]) \in written

\* C16: the batch of an iteration is the whole product of the snapshot: every
\* pair already in all_video_combinations is prepared and submitted again in
\* each later iteration.
C16_FullProductResubmitted ==
    /\ pc \in {"unlock_right", "unlock_left", "submit", "wait"} =>
            all_video_combinations \subseteq prepared_combinations
    /\ pc = "wait" => all_video_combinations \subseteq DOMAIN jstate

C16_Witness ==
    /\ pc = "wait"
    /\ \E p \in all_video_combinations :
            /\ dispatch_count[p] = 2
            /\ jstate[p] = "run"
    /\ \E p \in DOMAIN jstate : p \notin all_video_combinations

\* C17: the driver is not gated on the transform pools: wherever it is, apart
\* from waiting for a registry lock, for its batch or for the pools at the end,
\* it can take its next step whatever the transform tasks are doing; so it
\* snapshots the registries as they are and join_videos tasks run while
\* transform tasks are still queued or running.
C17_DriverNotGated ==
    /\ pc \in {"start", "while", "read_left", "read_right", "unlock_right",
               "unlock_left", "submit", "union"} => ENABLED DriverStep
    /\ (pc = "lock_left" /\ lock_transformed_left = NoOwner) => ENABLED DriverStep
    /\ (pc = "lock_right" /\ lock_transformed_right = NoOwner) => ENABLED DriverStep
    /\ (pc \in {"wait", "clear"} /\ \A p \in DOMAIN jstate : jstate[p] \in JoinDone)
            => ENABLED DriverStep

C17_Witness ==
    /\ \E p \in DOMAIN jstate : jstate[p] = "run"
    /\ \E i \in left_videos : tstate[i] \in {"queued", "run"}
    /\ \E i \in right_videos : tstate[i] \in {"queued", "run"}

\* C18: a pair is snapshotted and dispatched to join_videos only when the
\* transform task of its left artifact and that of its right artifact have
\* returned from subprocess.run with return code 0, added the artifact to the
\* registry and left the with-lock block; no join_videos task exists for an
\* artifact whose transform is queued, running or failed.
TransformedAndRegistered(artifact, side) ==
    \E i \in Videos(side) :
        /\ output_file_of(i, side) = artifact
        /\ result[i] = "ok"
        /\ tstate[i] = "finished"
        /\ inserts[i] >= 1
        /\ artifact \in (IF side = "left" THEN transformed_left ELSE transformed_right)

Dispatched ==
    prepared_combinations \cup DOMAIN jstate \cup all_video_combinations
        \cup {p \in PoolPairs : dispatch_count[p] > 0}

C18_JoinAfterBothTransforms ==
    \A p \in Dispatched :
        /\ TransformedAndRegistered(p[1], "left")
        /\ TransformedAndRegistered(p[2], "right")

C18_Witness ==
    /\ Joining # {}
    /\ \E l \in left_videos :
          /\ tstate[l] = "run"
          /\ \A q \in Dispatched : q[1] # output_file_of(l, "left")

\* C19: the join_videos tasks executing at the same time write to pairwise
\* distinct output files: a batch holds each pair once, and two different
\* pairs never get the same output file from join_videos' naming rule.
C19_AsClaimed ==
    \A p, q \in Joining :
        p # q => join_output_file(p[1], p[2]) # join_output_file(q[1], q[2])

\* C20: all_video_combinations is always a subset of
\* transformed_left x transformed_right, and once the while loop has been left
\* it is the full product of the artifacts of all input items and a
\* join_videos task has completed at least once for every pair.
C20_ProducedWithinRegistries ==
    /\ all_video_combinations \subseteq transformed_left \X transformed_right
    /\ LoopExited =>
          /\ all_video_combinations = FullPairs
          /\ FullPairs \subseteq completed

C20_Witness ==
    /\ LoopExited
    /\ Cardinality(FullPairs) = MaxPairs
    /\ all_video_combinations = FullPairs
    /\ \E p \in FullPairs : dispatch_count[p] >= 2

====
